---- MODULE Spec2Model ----
(***************************************************************************)
(* Okamoto-Uchiyama cryptosystem (src/okamoto.go): key generation,         *)
(* encryption, decryption and the two homomorphic combiners, modelled over *)
(* small keys.  Every math/big value is an integer, every []byte a         *)
(* sequence of bytes; a caller session records the last call made.         *)
(***************************************************************************)
EXTENDS Integers, Sequences, FiniteSets, TLC

\* GenerateKey is called with bits in 0 .. MaxBits.
MaxBits == 5
\* rand.Int(rand.Reader, max) is drawn from 0 .. Min(max, MaxRand) - 1.
MaxRand == 26
\* Plaintext integers 0 .. MaxPlain are offered to Encrypt, next to N-1, N, N+1.
MaxPlain == 8
\* Number of ciphertexts a caller keeps for the homomorphic combiners.
MaxCiphers == 3
\* Plaintext integers 0 .. MaxHomPlain are encrypted for the combiners.
MaxHomPlain == 2

VARIABLES
    priv,   \* the *PrivateKey the caller got from GenerateKey (NoKey before)
    genQ,   \* the prime q drawn by that GenerateKey call (never stored in the key)
    one,    \* the value of the package-level big.Int `one`
    held,   \* ciphertexts the caller keeps from Encrypt: [ct: bytes, pt: plaintext]
    call    \* the last call: operation, receiver key, arguments, results

vars == <<priv, genQ, one, held, call>>

----------------------------------------------------------------------------
\* math/big and crypto/rand, as used by the package

Min(a, b) == IF a < b THEN a ELSE b

\* x.Cmp(y)
Cmp(x, y) == IF x < y THEN -1 ELSE IF x = y THEN 0 ELSE 1

\* new(big.Int).Exp(x, y, m) for m > 0: x**y mod m, 1 for y <= 0
RECURSIVE Exp(_, _, _)
Exp(x, y, m) ==
    IF y <= 0 THEN 1 % m
    ELSE LET h == Exp(x, y \div 2, m)
             s == (h * h) % m
         IN  IF y % 2 = 1 THEN (s * (x % m)) % m ELSE s

\* z.Bytes(): minimal big-endian bytes, the empty slice for 0
RECURSIVE Bytes(_)
Bytes(z) == IF z <= 0 THEN <<>> ELSE Append(Bytes(z \div 256), z % 256)

\* new(big.Int).SetBytes(buf): big-endian unsigned integer, leading zeros allowed
RECURSIVE SetBytes(_)
SetBytes(buf) ==
    IF buf = <<>> THEN 0
    ELSE SetBytes(SubSeq(buf, 1, Len(buf) - 1)) * 256 + buf[Len(buf)]

\* new(big.Int).ModInverse(g, n): the inverse of g in Z/nZ, a nil pointer when
\* g and n are not relatively prime (a negative g is first reduced mod n)
ModInverse(g, n) ==
    LET g2 == g % n
        xs == {x \in 1 .. n - 1 : (g2 * x) % n = 1}
    IN  IF xs = {} THEN [isNil |-> TRUE, v |-> 0]
        ELSE [isNil |-> FALSE, v |-> CHOOSE x \in xs : TRUE]

IsPrime(n) == n >= 2 /\ \A d \in 2 .. n - 1 : n % d # 0

RECURSIVE Pow2(_)
Pow2(k) == IF k <= 0 THEN 1 ELSE 2 * Pow2(k - 1)

\* rand.Prime(random, bits): a prime of exactly `bits` bits; the candidates
\* have their top two bits and their lowest bit set
RandPrime(bits) ==
    {p \in Pow2(bits - 1) .. Pow2(bits) - 1 :
        /\ p >= 3 * Pow2(bits - 2)
        /\ p % 2 = 1
        /\ IsPrime(p)}

\* rand.Int(rand.Reader, max): uniform in [0, max)
RandInt(max) == 0 .. Min(max, MaxRand) - 1

----------------------------------------------------------------------------
\* The package's functions

NoKey == [N |-> 0, G |-> 0, H |-> 0, GD |-> 0, P |-> 0, PSquared |-> 0]

\* gpminuse1 of one iteration of GenerateKey's loop for the candidate g
Gpminuse1(p, g, oneV) == Exp(g, p - oneV, p * p) % (p * p)

\* the loop's exit test: gpminuse1.Cmp(one) != 0
LoopBreaks(p, g, oneV) == Cmp(Gpminuse1(p, g, oneV), oneV) # 0

\* MakeKey with h reduced modulo psquare instead of n
MakeKeyHModPSquare(p, q, g, oneV) ==
    LET psquare == p * p
        n == psquare * q
    IN  [N |-> n, G |-> g, H |-> Exp(g, n, psquare) % psquare,
         GD |-> Gpminuse1(p, g, oneV), P |-> p, PSquared |-> psquare]

\* the key GenerateKey returns for primes p, q and the accepted candidate g
MakeKey(p, q, g, oneV) ==
    LET psquare == p * p
        n == psquare * q
    IN  [N |-> n, G |-> g, H |-> Exp(g, n, n) % n,
         GD |-> Gpminuse1(p, g, oneV), P |-> p, PSquared |-> psquare]

\* pub.Encrypt(plainText) with the blinding value r already drawn
Encrypt(pub, plainText, r) ==
    LET m == SetBytes(plainText)
    IN  IF Cmp(m, pub.N) = 1
        THEN [out |-> <<>>, err |-> "ErrLargeMessage"]
        ELSE [out |-> Bytes((Exp(pub.G, m, pub.N) * Exp(pub.H, r, pub.N)) % pub.N),
              err |-> "nil"]

\* priv.Decrypt(cipherText); a nil binverse makes Mul dereference a nil pointer
Decrypt(k, cipherText, oneV) ==
    LET c == SetBytes(cipherText)
        pminuse1 == k.P - oneV
        a == Exp(c, pminuse1, k.PSquared)
        l1 == (a - oneV) \div k.P
        l2 == (k.GD - oneV) \div k.P
        binverse == ModInverse(l2, k.P)
    IN  IF Cmp(c, k.N) = 1
        THEN [out |-> <<>>, err |-> "ErrLargeCipher"]
        ELSE IF binverse.isNil
        THEN [out |-> <<>>, err |-> "panic"]
        ELSE [out |-> Bytes((l1 * binverse.v) % k.P), err |-> "nil"]

\* the range test of HomomorphicEncTwo
TwoTooLarge(cipherA, cipherB, n) == Cmp(cipherA, n) = 1 /\ Cmp(cipherB, n) = 1

\* pub.HomomorphicEncTwo(c1, c2)
HomomorphicEncTwo(pub, c1, c2) ==
    LET cipherA == SetBytes(c1)
        cipherB == SetBytes(c2)
    IN  IF TwoTooLarge(cipherA, cipherB, pub.N)
        THEN [out |-> <<>>, err |-> "ErrLargeCipher"]
        ELSE [out |-> Bytes((cipherA * cipherB) % pub.N), err |-> "nil"]

\* MulModStep computing in place, C.Mod(C.Mul(C, cipher), pub.N): the product
\* is written into the big.Int C points to, which is `one` in the first round
MulModStepInPlace(C, aliasesOne, cipher, n, oneV) ==
    [C |-> (C * cipher) % n, aliasesOne |-> aliasesOne,
     one |-> IF aliasesOne THEN (C * cipher) % n ELSE oneV]

\* C = new(big.Int).Mod(new(big.Int).Mul(C, cipher), pub.N): the product goes
\* into a fresh big.Int, so the big.Int C pointed to (`one` at first) is kept
MulModStep(C, aliasesOne, cipher, n, oneV) ==
    [C |-> (C * cipher) % n, aliasesOne |-> FALSE, one |-> oneV]

\* the loop of HommorphicEncMultiple from index i on
RECURSIVE MultipleLoop(_, _, _, _, _, _)
MultipleLoop(pub, ciphers, i, C, aliasesOne, oneV) ==
    IF i > Len(ciphers)
    THEN [out |-> Bytes(C), err |-> "nil", one |-> oneV]
    ELSE LET cipher == SetBytes(ciphers[i])
             st == MulModStep(C, aliasesOne, cipher, pub.N, oneV)
         IN  IF Cmp(cipher, pub.N) = 1
             THEN [out |-> <<>>, err |-> "ErrLargeCipher", one |-> oneV]
             ELSE MultipleLoop(pub, ciphers, i + 1, st.C, st.aliasesOne, st.one)

\* pub.HommorphicEncMultiple(ciphers...): C := one, then the loop
HommorphicEncMultiple(pub, ciphers, oneV) ==
    MultipleLoop(pub, ciphers, 1, oneV, TRUE, oneV)

----------------------------------------------------------------------------
\* Inputs of the calls

\* plaintexts offered to Encrypt under a key with modulus n
PlainInputs(n) == {Bytes(v) : v \in (0 .. MaxPlain) \cup {n - 1, n, n + 1}}

\* ciphertexts a caller makes up: small ones and the ones around n
CipherInputs(n) == {Bytes(v) : v \in {0, 1, 2, n - 1, n, n + 1}}

\* plaintexts encrypted for the combiners
HomInputs == {Bytes(v) : v \in 0 .. MaxHomPlain}

\* PrivateKey values a caller builds itself (all fields are exported)
LiteralKeys ==
    {[N |-> p * p * 3, G |-> 2, H |-> Exp(2, p * p * 3, p * p * 3),
      GD |-> gd, P |-> p, PSquared |-> p * p] :
        p \in {2, 3}, gd \in 0 .. 3}

RECURSIVE SumPt(_)
SumPt(hs) == IF hs = <<>> THEN 0 ELSE hs[1].pt + SumPt(Tail(hs))

Cts(hs) == [i \in 1 .. Len(hs) |-> hs[i].ct]

----------------------------------------------------------------------------
\* The calls

Init ==
    /\ priv = NoKey
    /\ genQ = 0
    /\ one = 1
    /\ held = <<>>
    /\ call = [op |-> "none", recv |-> NoKey, in |-> <<>>, out |-> <<>>,
               err |-> "nil", pt |-> -1, src |-> "none"]

\* rand.Prime fails for a prime size below 2 bits and GenerateKey returns
\* (nil, err); otherwise p, q are drawn and g is the first candidate that
\* ends the loop
GenerateKeyCall(bits) ==
    \/ /\ bits \div 2 < 2
       /\ priv' = NoKey
       /\ genQ' = 0
       /\ held' = <<>>
       /\ call' = [op |-> "GenerateKey", recv |-> NoKey, in |-> <<>>,
                   out |-> <<>>, err |-> "ErrPrimeSize", pt |-> -1,
                   src |-> "none"]
       /\ UNCHANGED one
    \/ /\ bits \div 2 >= 2
       /\ \E p \in RandPrime(bits \div 2), q \in RandPrime(bits \div 2) :
            \E g \in RandInt(p * p * q - one) :
              /\ LoopBreaks(p, g, one)
              /\ priv' = MakeKey(p, q, g, one)
              /\ genQ' = q
              /\ held' = <<>>
              /\ call' = [op |-> "GenerateKey", recv |-> priv', in |-> <<>>,
                          out |-> <<>>, err |-> "nil", pt |-> -1,
                          src |-> "none"]
              /\ UNCHANGED one

EncryptCall(plainText, keep) ==
    /\ priv # NoKey
    /\ keep => Len(held) < MaxCiphers
    /\ \E res \in {Encrypt(priv, plainText, r) : r \in RandInt(priv.N - one)} :
         LET m == IF res.err = "nil" THEN SetBytes(plainText) ELSE -1
         IN  /\ call' = [op |-> "Encrypt", recv |-> priv, in |-> <<plainText>>,
                         out |-> res.out, err |-> res.err, pt |-> m,
                         src |-> "none"]
             /\ held' = IF keep /\ res.err = "nil"
                        THEN Append(held, [ct |-> res.out, pt |-> m])
                        ELSE held
    /\ UNCHANGED <<priv, genQ, one>>

\* pt, src: the plaintext behind cipherText and the call that produced it
DecryptCall(k, cipherText, pt, src) ==
    /\ k # NoKey
    /\ LET res == Decrypt(k, cipherText, one)
       IN  call' = [op |-> "Decrypt", recv |-> k, in |-> <<cipherText>>,
                    out |-> res.out, err |-> res.err, pt |-> pt, src |-> src]
    /\ UNCHANGED <<priv, genQ, one, held>>

HomomorphicEncTwoCall(c1, c2, pt) ==
    /\ priv # NoKey
    /\ LET res == HomomorphicEncTwo(priv, c1, c2)
       IN  call' = [op |-> "HomomorphicEncTwo", recv |-> priv, in |-> <<c1, c2>>,
                    out |-> res.out, err |-> res.err, pt |-> pt, src |-> "none"]
    /\ UNCHANGED <<priv, genQ, one, held>>

HommorphicEncMultipleCall(ciphers, pt) ==
    /\ priv # NoKey
    /\ LET res == HommorphicEncMultiple(priv, ciphers, one)
       IN  /\ call' = [op |-> "HommorphicEncMultiple", recv |-> priv,
                       in |-> ciphers, out |-> res.out, err |-> res.err,
                       pt |-> pt, src |-> "none"]
           /\ one' = res.one
    /\ UNCHANGED <<priv, genQ, held>>

----------------------------------------------------------------------------
\* Spec: single calls on made-up inputs, and Decrypt of what Encrypt returned

GenerateKeyAny == \E bits \in 0 .. MaxBits : GenerateKeyCall(bits)

EncryptAny == \E plainText \in PlainInputs(priv.N) : EncryptCall(plainText, FALSE)

DecryptAny ==
    \E cipherText \in CipherInputs(priv.N) : DecryptCall(priv, cipherText, -1, "none")

DecryptEncrypted ==
    /\ call.op = "Encrypt"
    /\ call.err = "nil"
    /\ DecryptCall(priv, call.out, call.pt, "Encrypt")

DecryptLiteral ==
    \E k \in LiteralKeys :
      \E cipherText \in CipherInputs(k.N) : DecryptCall(k, cipherText, -1, "none")

TwoAny ==
    \E c1 \in CipherInputs(priv.N), c2 \in CipherInputs(priv.N) :
        HomomorphicEncTwoCall(c1, c2, -1)

MultipleAny ==
    \E n \in 0 .. 2 :
      \E ciphers \in [1 .. n -> CipherInputs(priv.N)] :
        HommorphicEncMultipleCall(ciphers, -1)

Next ==
    \/ GenerateKeyAny
    \/ EncryptAny
    \/ DecryptAny
    \/ DecryptEncrypted
    \/ DecryptLiteral
    \/ TwoAny
    \/ MultipleAny

Spec == Init /\ [][Next]_vars

----------------------------------------------------------------------------
\* SpecHom: encrypt a few plaintexts, combine the ciphertexts, decrypt the result

EncryptKeep == \E plainText \in HomInputs : EncryptCall(plainText, TRUE)

TwoHeld ==
    \E i \in 1 .. Len(held), j \in 1 .. Len(held) :
        HomomorphicEncTwoCall(held[i].ct, held[j].ct, held[i].pt + held[j].pt)

MultipleHeld ==
    \E n \in 0 .. Len(held) :
        HommorphicEncMultipleCall(Cts(SubSeq(held, 1, n)), SumPt(SubSeq(held, 1, n)))

DecryptCombined ==
    /\ call.op \in {"HomomorphicEncTwo", "HommorphicEncMultiple"}
    /\ call.err = "nil"
    /\ DecryptCall(priv, call.out, call.pt, call.op)

NextHom ==
    \/ GenerateKeyAny
    \/ EncryptKeep
    \/ TwoHeld
    \/ MultipleHeld
    \/ DecryptCombined

SpecHom == Init /\ [][NextHom]_vars

----------------------------------------------------------------------------
\* Properties

Combiners == {"HomomorphicEncTwo", "HommorphicEncMultiple"}

\* x**y mod m by successive multiplications, sixteen at a time:
\* x**y = (x**16)**(y div 16) * x**(y mod 16)
RECURSIVE SlowExp(_, _, _)
SlowExp(x, y, m) ==
    IF y <= 0 THEN 1 % m
    ELSE IF y <= 16 THEN (SlowExp(x, y - 1, m) * x) % m
    ELSE (SlowExp(SlowExp(x, 16, m), y \div 16, m) * SlowExp(x, y % 16, m)) % m

\* L(x) = (x - 1) / P
L(x, p) == (x - 1) \div p

\* C1: round trip. Decrypting, under the generated key, what Encrypt returned
\* for a plaintext m < P gives m back without error, whatever G the
\* generation loop accepted and whatever r Encrypt drew.
C1_RoundTrip ==
    (call.op = "Decrypt" /\ call.src = "Encrypt" /\ call.pt < priv.P)
        => (call.err = "nil" /\ SetBytes(call.out) = call.pt)

\* C2: additive homomorphism. Decrypting the output of HomomorphicEncTwo or
\* HommorphicEncMultiple over encryptions of plaintexts whose sum is < P
\* gives that sum.
C2_Homomorphism ==
    (call.op = "Decrypt" /\ call.src \in Combiners /\ call.pt < priv.P)
        => (call.err = "nil" /\ SetBytes(call.out) = call.pt)

\* C3: boundary rejection at N. Encrypt returns ErrLargeMessage exactly for the
\* plaintexts m >= N and succeeds only for m < N; Decrypt returns
\* ErrLargeCipher exactly for the ciphertexts c >= N and succeeds only for c < N.
C3_BoundaryAtN ==
    /\ call.op = "Encrypt" =>
         /\ (call.err = "ErrLargeMessage") = (SetBytes(call.in[1]) >= call.recv.N)
         /\ call.err = "nil" => SetBytes(call.in[1]) < call.recv.N
    /\ (call.op = "Decrypt" /\ call.recv = priv) =>
         /\ (call.err = "ErrLargeCipher") = (SetBytes(call.in[1]) >= call.recv.N)
         /\ call.err = "nil" => SetBytes(call.in[1]) < call.recv.N

\* C4: a combiner given at least one operand that exceeds N returns
\* ErrLargeCipher and no ciphertext, also when its other operands are in range.
C4_AnyOperandRejected ==
    (call.op \in Combiners
       /\ \E i \in 1 .. Len(call.in) : SetBytes(call.in[i]) > call.recv.N)
        => (call.err = "ErrLargeCipher" /\ call.out = <<>>)

\* C5: HommorphicEncMultiple with an empty list, and HomomorphicEncTwo with
\* empty operands, return an error and no ciphertext bytes.
C5_EmptyRejected ==
    (\/ call.op = "HommorphicEncMultiple" /\ call.in = <<>>
     \/ call.op = "HomomorphicEncTwo" /\ call.in = << <<>>, <<>> >>)
        => (call.err # "nil" /\ call.out = <<>>)

\* C6: key consistency. A key returned by GenerateKey has PSquared = P * P,
\* N = PSquared * Q for the prime Q drawn, GD = G^(P-1) mod PSquared, GD # 1
\* and H = G^N mod N.
C6_KeyConsistency ==
    priv # NoKey =>
        /\ priv.PSquared = priv.P * priv.P
        /\ IsPrime(genQ)
        /\ priv.N = priv.PSquared * genQ
        /\ priv.GD = SlowExp(priv.G, priv.P - 1, priv.PSquared)
        /\ priv.GD # 1
        /\ priv.H = SlowExp(priv.G, priv.N, priv.N)

\* C6 witness: GenerateKey has just returned a key with a generator above 1.
C6_Witness == call.op = "GenerateKey" /\ priv.G > 1 /\ priv.GD > 1

\* C7: when L(GD) has no inverse modulo P, Decrypt of an in-range ciphertext
\* returns an error value to the caller: it neither crashes nor returns a
\* plaintext.
C7_NoInverseIsError ==
    (call.op = "Decrypt"
       /\ SetBytes(call.in[1]) < call.recv.N
       /\ \A x \in 0 .. call.recv.P - 1 :
            (L(call.recv.GD, call.recv.P) * x) % call.recv.P # 1)
        => (call.err \notin {"nil", "panic"} /\ call.out = <<>>)

\* C8: the G of a key returned by GenerateKey lies in 2 .. N-1.
C8_GeneratorRange == priv # NoKey => priv.G \in 2 .. priv.N - 1

\* C9: a plaintext m with P <= m < N encrypts without error, and decrypting
\* the ciphertext under the generated key returns m mod P.
C9_ReducedModP ==
    (call.op = "Decrypt" /\ call.src = "Encrypt"
       /\ call.pt >= priv.P /\ call.pt < priv.N)
        => (call.err = "nil" /\ SetBytes(call.out) = call.pt % priv.P)

\* C10: no shared mutable state. Every call leaves the package-level `one`
\* equal to 1, only GenerateKey changes the caller's key, and the result of
\* Decrypt and of the combiners is the one their arguments alone determine.
C10_NoSharedMutableState ==
    [][/\ one = 1
       /\ one' = 1
       /\ (priv # NoKey /\ call'.op # "GenerateKey") => priv' = priv
       /\ call'.op = "Decrypt" =>
            call'.out = Decrypt(call'.recv, call'.in[1], 1).out
       /\ call'.op = "HomomorphicEncTwo" =>
            call'.out = HomomorphicEncTwo(call'.recv, call'.in[1], call'.in[2]).out
       /\ call'.op = "HommorphicEncMultiple" =>
            call'.out = HommorphicEncMultiple(call'.recv, call'.in, 1).out]_vars

\* C10 witness: HommorphicEncMultiple has multiplied ciphertexts into a
\* product other than 1 and `one` is still 1.
C10_Witness ==
    /\ call.op = "HommorphicEncMultiple"
    /\ Len(call.in) >= 1
    /\ call.err = "nil"
    /\ SetBytes(call.out) > 1
    /\ one = 1

====
